---- MODULE Spec2Model ----
(***************************************************************************)
(* Model of the dataframe "chat" loop of this repository:                  *)
(*   src/datastructure/aidDataframe.py  (AIDataFrame)                      *)
(*   src/functions/chat_with_df.py      (ChatWithPandas.forward)           *)
(* together with the parts of the interpreter and of the vendored engine   *)
(* that decide what the loop does: the module cache consulted by           *)
(* "from tmp import ...", the tmp module in site-packages, and the column  *)
(* labels the engine gives to the arguments of a function call.            *)
(*                                                                         *)
(* Text is modelled as a sequence of tokens.  A token is a run of          *)
(* characters that contains no two adjacent spaces; the token " " is one   *)
(* space character, so that re.sub(' +', ' ', s) is a real conversion.     *)
(***************************************************************************)
EXTENDS Integers, Sequences, FiniteSets, TLC

VARIABLES
    pc,           \* per thread: position of the thread in its current call
    req,          \* per thread: the locals of the current call
    df,           \* per thread: the AIDataFrame the thread works on (<<>> if none)
    tmp_py,       \* the file tmp.py in the working directory (<<>> if absent)
    sys_modules,  \* the entry sys.modules['tmp'] (<<>> if absent)
    cleaned_csv,  \* the file cleaned_df.csv has been written
    reqs,         \* number of calls started so far
    remote_log,   \* per thread and instruction, for query_dataframe on the
                  \* current wrapper: remote calls made, whether an answer
                  \* was returned, remote calls made after an answer
    function_catalog,  \* the rows of the engine's function catalog
    function_io,  \* the rows of the io table and of the metadata table
    function_cache,  \* the function caches registered with the catalog
    stmts,        \* the last statements the engine executed on the function
                  \* catalog, oldest first, each with its outcome
    correction,   \* the last call of ErrorCorrectionPrompt.get_prompt: its
                  \* arguments and the text it returned (<<>> if none)
    limit_exec,   \* the generator LimitExecutor.exec: its locals, what it has
                  \* pulled from its child and what it has yielded
    sample_exec,  \* the generator SampleExecutor.exec, likewise
    instances,    \* SingletonMeta._instances[(SQLConfig, uri)]: the object the
                  \* weak-value registry holds for the key (<<>> if none)
    lock,         \* SingletonMeta._lock: the thread that holds it (<<>> if free)
    caller,       \* per thread: its position in SQLConfig(uri), the local
                  \* "instance" of __call__, the reference its caller holds
                  \* and the exception the call raised
    objects       \* SQLConfig objects constructed so far

\* the state of the engine's catalog session
catVars == <<function_catalog, function_io, function_cache, stmts>>

\* the state of the building blocks that stand beside the loop
\* the state of SingletonMeta
sqlVars == <<instances, lock, caller, objects>>

libVars == <<correction, limit_exec, sample_exec, sqlVars>>

vars == <<pc, req, df, tmp_py, sys_modules, cleaned_csv, reqs, remote_log,
          catVars, libVars>>

-----------------------------------------------------------------------------
(* Bounds *)

MaxReq == 2       \* calls (forward / request method / execute_python) started
MaxRows == 2      \* rows of a dataset handed to the program
MaxBatches == 3   \* batches a child executor yields
MaxBatchLen == 2  \* rows of one batch
MaxLimit == 3     \* the count of a LIMIT clause
MaxFreq == 3      \* the frequency of a SAMPLE clause
MaxObjects == 3   \* SQLConfig objects constructed

Threads == {1, 2}

-----------------------------------------------------------------------------
(* Text helpers *)

SP == " "

RECURSIVE Spaces(_)
Spaces(n) == IF n = 0 THEN <<>> ELSE <<SP>> \o Spaces(n - 1)

RECURSIVE Concat(_)
Concat(ss) == IF ss = <<>> THEN <<>> ELSE Head(ss) \o Concat(Tail(ss))

\* s contains sub as a contiguous run of tokens
Contains(s, sub) ==
    \E i \in 0..(Len(s) - Len(sub)) :
        \A j \in 1..Len(sub) : s[i + j] = sub[j]

\* first position of token tok in s, 0 if none
IndexOf(s, tok) ==
    IF \E i \in 1..Len(s) : s[i] = tok
    THEN CHOOSE i \in 1..Len(s) : s[i] = tok /\ \A j \in 1..(i - 1) : s[j] # tok
    ELSE 0

-----------------------------------------------------------------------------
(* Values of the Python program *)

StrV(s) == [ty |-> "str", s |-> s]
IntV(n) == [ty |-> "int", s |-> <<ToString(n)>>]
NoneV == [ty |-> "none", s |-> <<>>]
DfV == [ty |-> "df", s |-> <<>>]

\* str(v), as an f-string renders it
PyStr(v) ==
    CASE v.ty \in {"str", "int"} -> v.s
      [] v.ty = "none" -> <<"None">>
      [] OTHER -> <<"<DataFrame>">>

IsString(v) == v.ty = "str"

-----------------------------------------------------------------------------
(* Inputs *)

Instructions ==
    { <<"what is the mean of the gear column">>,
      <<"mean", SP, SP, "gear">> }

ColumnLists == { <<"gear", "name">>, <<"mpg">> }

\* a cell is identified by its column and its row
Cell(c, i) == <<c, i>>

DataRows(cols, n) == [i \in 1..n |-> [j \in 1..Len(cols) |-> Cell(cols[j], i)]]

Frame(cols, n) == [cols |-> cols, rows |-> DataRows(cols, n)]

Frames == { Frame(cols, n) : cols \in ColumnLists, n \in 0..MaxRows }

\* The generated programs the remote model may answer with.  A program is
\* described by what the interpreter can observe of it: whether the module
\* body executes, the functions it defines, and what the function does when
\* it is called with the dataset.
Prog(name, raises, ret, eff) ==
    [load |-> "ok", defs |-> {name}, raises |-> raises, ret |-> ret, eff |-> eff]

Programs ==
    { [load |-> "SyntaxError", defs |-> {}, raises |-> FALSE, ret |-> NoneV,
       eff |-> "none"],
      Prog("pandas_query_function", FALSE, StrV(<<"3.6875">>), "none"),
      Prog("pandas_query_function", FALSE, StrV(<<"4">>), "none"),
      Prog("pandas_query_function", TRUE, NoneV, "none"),
      Prog("pandas_plot_function", FALSE, NoneV, "none"),
      Prog("pandas_manipulation_function", FALSE, DfV, "drop_rows"),
      Prog("pandas_manipulation_function", FALSE, DfV, "add_row"),
      Prog("pandas_clean_function", FALSE, DfV, "none"),
      Prog("pandas_clean_function", FALSE, NoneV, "none") }

\* The completions the remote model may return: the list of their choices'
\* texts.  One completion carries a second choice.
Completions ==
    { <<p>> : p \in Programs } \cup
    { << Prog("pandas_query_function", FALSE, StrV(<<"3.6875">>), "none"),
         Prog("pandas_query_function", FALSE, StrV(<<"4">>), "none") >> }

-----------------------------------------------------------------------------
(* AIDataFrame: construction and properties *)

\* AIDataFrame.__init__: the wrapper keeps the given frame as pd_df and is
\* itself a DataFrame built from it (base); the flag is set here and nowhere
\* else.
NewAIDataFrame(frame, description, owner) ==
    [pd_df |-> frame,
     base |-> frame,
     is_df_loaded |-> (Len(frame.rows) > 0),
     description |-> description,
     owner |-> owner]

col_count(w) == IF w.is_df_loaded THEN IntV(Len(w.pd_df.cols)) ELSE NoneV

row_count(w) == IF w.is_df_loaded THEN IntV(Len(w.pd_df.rows)) ELSE NoneV

-----------------------------------------------------------------------------
(* Prompt builder *)

\* repr of a Python list of strings: ['gear', 'name']
RECURSIVE PyListItems(_)
PyListItems(cols) ==
    IF cols = <<>> THEN <<>>
    ELSE <<"'", Head(cols), "'">> \o
         (IF Tail(cols) = <<>> THEN <<>> ELSE <<",", SP>> \o PyListItems(Tail(cols)))

PyList(cols) == <<"[">> \o PyListItems(cols) \o <<"]">>

\* DataFrame.to_csv(): a header line, then one line per row led by its index
CsvCell(cell) == <<",", cell[1], "#", ToString(cell[2])>>

CsvLine(row, idx) ==
    <<ToString(idx)>> \o Concat([j \in 1..Len(row) |-> CsvCell(row[j])]) \o <<"\n">>

ToCsv(frame) ==
    Concat([j \in 1..Len(frame.cols) |-> <<",", frame.cols[j]>>]) \o <<"\n">> \o
    Concat([i \in 1..Len(frame.rows) |-> CsvLine(frame.rows[i], i - 1)])

\* frame.iloc[0:2]
Head2(frame) ==
    [cols |-> frame.cols,
     rows |-> SubSeq(frame.rows, 1, IF Len(frame.rows) < 2 THEN Len(frame.rows) ELSE 2)]

\* re.sub(' +', ' ', s): of every run of spaces the first one stays
CollapseSpaces(s) ==
    LET Keep(i) == ~(i > 1 /\ s[i] = SP /\ s[i - 1] = SP)
        idx == SelectSeq([i \in 1..Len(s) |-> i], Keep)
    IN [k \in 1..Len(idx) |-> s[idx[k]]]

\* the backslash-newline of the f-string keeps the next line's indentation
Indent == Spaces(12)

NamedMarker == "Write this code in a function named"

AskLine(kind) ==
    CASE kind = "query" -> "Give me the python code for the following query:"
      [] kind = "plot" -> "Give me the python code to create the following plot:"
      [] kind = "manipulation" ->
            "Give me the python code to perform the following manipulation:"
      [] OTHER -> "Give me the python code to perform the following data cleaning:"

PromptFnName(kind) ==
    CASE kind = "query" -> "pandas_query_function"
      [] kind = "plot" -> "pandas_plot_function"
      [] kind = "manipulation" -> "pandas_manipulation_function"
      [] OTHER -> "pandas_clean_function"

OutputLines(kind) ==
    CASE kind = "query" ->
            <<"Output of the function should be a string. Add the required imports for the function.",
              SP>> \o Indent \o
            <<"Print the output in the format query: result in the function.">> \o Indent
      [] kind = "plot" ->
            <<"Save the output plot to a file named plot.png. do not return anything.">>
            \o Indent \o
            <<"Add the required imports for the function.", SP>> \o Indent
      [] kind = "manipulation" ->
            <<"The output should be the dataframe after the manipulations are done.">>
            \o Indent \o
            <<"Add the required imports for the function.", SP>> \o Indent
      [] OTHER ->
            <<"The output should be the dataframe after the cleaning are done.">>
            \o Indent \o
            <<"Add the required imports for the function.", SP>> \o Indent

\* the f-string shared by the four create_*_prompt methods, before re.sub
RawPrompt(w, kind, text) ==
    <<"I need you to write a python3.8 program for the following dataframe.", SP>>
    \o Indent \o
    <<"You are given the following pandas dataframe.", SP>> \o Indent \o
    <<"The dataframe has", SP>> \o PyStr(col_count(w)) \o <<SP, "columns", ".", SP,
      "The columns are", SP>> \o PyList(w.base.cols) \o <<".", SP>> \o Indent \o
    <<"The first 2 rows of data in the csv format are", SP>> \o ToCsv(Head2(w.base))
    \o <<SP, ".">> \o Indent \o
    <<AskLine(kind), SP>> \o text \o <<".">> \o Indent \o
    <<NamedMarker, SP, "'", PromptFnName(kind), "'", SP,
      "and it should take the pandas dataframe as input.", SP>> \o Indent \o
    <<"Do not create a new dataframe. assume that it is given as input to the function.">>
    \o Indent \o
    OutputLines(kind) \o
    <<"Do not add any code for example usage to execute the function. Write only the function code.">>
    \o Indent \o
    <<"The response should have only the python code and no additional text.", SP>>
    \o Indent \o
    <<"I repeat.. give the python code only for the function. NO ADDITIONAL CODE.">>

create_query_prompt(w, query) == CollapseSpaces(RawPrompt(w, "query", query))

create_plot_prompt(w, plot_req) == CollapseSpaces(RawPrompt(w, "plot", plot_req))

create_manipulation_prompt(w, manipulation) ==
    CollapseSpaces(RawPrompt(w, "manipulation", manipulation))

\* the cleaning prompt is returned without the re.sub step
create_data_cleaning_prompt(w, clean_query) == RawPrompt(w, "cleaning", clean_query)

CreatePrompt(w, m, text) ==
    CASE m = "query" -> create_query_prompt(w, text)
      [] m = "plot" -> create_plot_prompt(w, text)
      [] m = "manipulation" -> create_manipulation_prompt(w, text)
      [] OTHER -> create_data_cleaning_prompt(w, text)

\* the function name a prompt tells the model to define
FnNamed(prompt) == prompt[IndexOf(prompt, NamedMarker) + 3]

-----------------------------------------------------------------------------
(* Outcomes of a call *)

NoOutcome == [kind |-> "none", exc |-> "", val |-> NoneV, cols |-> <<>>]
Return(v) == [kind |-> "return", exc |-> "", val |-> v, cols |-> <<>>]
Raise(e) == [kind |-> "raise", exc |-> e, val |-> NoneV, cols |-> <<>>]
\* pd.DataFrame({"response": [v]}): one column, one row holding v
ResponseTable(v) == [kind |-> "return", exc |-> "", val |-> v, cols |-> <<"response">>]

-----------------------------------------------------------------------------
(* Dynamic code executor: the dispatch table of execute_python *)

\* a chain of branch tests that takes the tag of forward as a type too
ExecTypes_WithCleaningTag ==
    {"query", "plot", "manipulation", "data_cleaning", "image_analysis", "cleaning"}

ExecTypes == {"query", "plot", "manipulation", "data_cleaning", "image_analysis"}

\* a dispatch table whose data_cleaning branch imports the name of another kind
ExecFnName_WrongCleanName(type) ==
    CASE type = "query" -> "pandas_query_function"
      [] type = "plot" -> "pandas_plot_function"
      [] type = "manipulation" -> "pandas_manipulation_function"
      [] type = "data_cleaning" -> "pandas_manipulation_function"
      [] OTHER -> "pandas_clean_function"

\* the name in "from tmp import <name>" of each branch
ExecFnName(type) ==
    CASE type = "query" -> "pandas_query_function"
      [] type = "plot" -> "pandas_plot_function"
      [] type = "manipulation" -> "pandas_manipulation_function"
      [] type = "data_cleaning" -> "pandas_clean_function"
      [] OTHER -> "pandas_clean_function"

\* what each branch returns once the function has returned ret
ExecReturn(type, ret) ==
    IF type = "plot" THEN StrV(<<"Your plot is stored in plot.png">>) ELSE ret

\* the type string each request method passes to execute_python
MethodType(m) ==
    CASE m = "query" -> "query"
      [] m = "plot" -> "plot"
      [] m = "manipulation" -> "manipulation"
      [] OTHER -> "data_cleaning"

\* what each request method returns once execute_python has returned answer
MethodReturn(m, q, answer) ==
    CASE m = "query" ->
            StrV(<<"Question is", SP>> \o q \o <<SP, "and Answer is", SP>> \o PyStr(answer))
      [] m = "plot" -> StrV(<<"please find the plot in the file plot.png">>)
      [] OTHER -> answer

\* a request method that answers with a text when the generated code raised
MethodOut_SwallowsError(m, q, ex) ==
    IF ex.kind = "raise" THEN Return(StrV(<<"error">>))
    ELSE Return(MethodReturn(m, q, ex.val))

MethodOut(m, q, ex) ==
    IF ex.kind = "raise" THEN ex ELSE Return(MethodReturn(m, q, ex.val))

\* a tail of forward whose later chain assigns the response of a cleaning
\* request again
ForwardOut_LaterBranchOverwrites(tag, mo) ==
    IF mo.kind = "raise" THEN mo
    ELSE IF tag = "cleaning"
         THEN IF mo.val.ty = "df"
              THEN ResponseTable(mo.val)
              ELSE Raise("AttributeError")
         ELSE ResponseTable(mo.val)

\* the tail of forward: the cleaning branch saves the frame and answers with
\* a fixed text; the other branches hand on what the method returned
ForwardOut(tag, mo) ==
    IF mo.kind = "raise" THEN mo
    ELSE IF tag = "cleaning"
         THEN IF mo.val.ty = "df"
              THEN ResponseTable(StrV(<<"cleaned dataframe is saved to cleaned_df.csv">>))
              ELSE Raise("AttributeError")
         ELSE ResponseTable(mo.val)

\* the outcome the caller of the current call sees, ex being the outcome of
\* execute_python
CallerOut(r, ex) ==
    CASE r.via = "exec" -> ex
      [] r.via = "method" -> MethodOut(r.m, r.q, ex)
      [] OTHER -> ForwardOut(r.tag, MethodOut(r.m, r.q, ex))

SavesCsv(r, ex) ==
    /\ r.via = "forward"
    /\ r.tag = "cleaning"
    /\ ex.kind = "return"
    /\ ex.val.ty = "df"

-----------------------------------------------------------------------------
(* The interpreter's import of the module tmp *)

\* site-packages/tmp.py defines print_tmp and tmp
SiteTmp == [origin |-> "site-packages", defs |-> {"print_tmp", "tmp"},
            code |-> <<>>, by |-> 0]

CwdTmp(file) == [origin |-> "cwd", defs |-> file.code.defs,
                 code |-> <<file.code>>, by |-> file.by]

\* "from tmp import name": the module found for the name tmp.  A cached entry
\* wins; else tmp.py of the working directory, which is first on the path;
\* else the module of that name in site-packages.
FindTmp(cache, file) ==
    IF cache # <<>> THEN cache[1]
    ELSE IF file # <<>> THEN CwdTmp(file[1])
    ELSE SiteTmp

\* executing the module body of a fresh tmp.py fails on a syntax error
LoadFails(cache, file) ==
    /\ cache = <<>>
    /\ file # <<>>
    /\ file[1].code.load # "ok"

\* in-place effect of a generated function on the frame it is given
ApplyEffect(frame, eff) ==
    CASE eff = "drop_rows" -> [frame EXCEPT !.rows = <<>>]
      [] eff = "add_row" ->
            [frame EXCEPT !.rows =
                Append(@, [j \in 1..Len(frame.cols) |-> Cell(frame.cols[j], Len(@) + 1)])]
      [] OTHER -> frame

-----------------------------------------------------------------------------
(* ChatWithPandas.forward: the batch the engine hands to the function *)

\* every constant argument of the call becomes a column labelled 0
\* (ConstantValueExpression.evaluate); data columns keep their names
ConstLabel == "<int 0>"

Tags == {"query", "plot", "manipulation", "cleaning", "summary"}

SupportedTags == {"query", "plot", "manipulation", "cleaning"}

ArgBatch(tag, q, cols, n) ==
    [cols |-> <<ConstLabel, ConstLabel>> \o cols,
     rows |-> [i \in 1..n |-> <<tag, q>> \o DataRows(cols, n)[i]]]

\* a dispatch whose chain ends in an else that treats the tag as a query
ForwardBranch_DefaultsToQuery(type) ==
    CASE type = "cleaning" -> "cleaning"
      [] type = "query" -> "query"
      [] type = "plot" -> "plot"
      [] type = "manipulation" -> "manipulation"
      [] OTHER -> "query"

\* the branch of forward a tag selects: the cleaning test, then the chain
\* query / plot / manipulation; "none" when no test matches
ForwardBranch(type) ==
    CASE type = "cleaning" -> "cleaning"
      [] type = "query" -> "query"
      [] type = "plot" -> "plot"
      [] type = "manipulation" -> "manipulation"
      [] OTHER -> "none"

\* a drop by position that takes the third column along with the first two
DropColumns_AlsoThird(frame, labels) ==
    LET Keep(j) == frame.cols[j] \notin labels /\ j # 3
        idx == SelectSeq([j \in 1..Len(frame.cols) |-> j], Keep)
    IN [cols |-> [k \in 1..Len(idx) |-> frame.cols[idx[k]]],
        rows |-> [i \in 1..Len(frame.rows) |->
                    [k \in 1..Len(idx) |-> frame.rows[i][idx[k]]]]]

\* DataFrame.drop(labels, axis=1): every column carrying one of the labels goes
DropColumns(frame, labels) ==
    LET Keep(j) == frame.cols[j] \notin labels
        idx == SelectSeq([j \in 1..Len(frame.cols) |-> j], Keep)
    IN [cols |-> [k \in 1..Len(idx) |-> frame.cols[idx[k]]],
        rows |-> [i \in 1..Len(frame.rows) |->
                    [k \in 1..Len(idx) |-> frame.rows[i][idx[k]]]]]

-----------------------------------------------------------------------------
(* State *)

EmptyReq ==
    [via |-> "none", tag |-> "", m |-> "", q |-> <<>>, type |-> "",
     prompt |-> <<>>, code |-> <<>>, name |-> "", fn |-> <<>>, args |-> <<>>,
     ret |-> NoneV, exout |-> NoOutcome, out |-> NoOutcome,
     execd |-> FALSE, remote |-> FALSE, empty0 |-> FALSE, dcols |-> <<>>,
     \* history of the call: the batch forward was given, the completion the
     \* remote client returned, the number of remote calls, the prompts built,
     \* the steps taken in their order, what the request method gave back and
     \* what was saved to cleaned_df.csv
     batch |-> <<>>, completion |-> <<>>, rcalls |-> 0, built |-> <<>>,
     ev |-> <<>>, mout |-> NoOutcome, saved |-> <<>>]

NoLog == [q \in Instructions |-> [calls |-> 0, answered |-> FALSE, repeats |-> 0]]

\* query_dataframe(q) reaches its remote call
LogCall(log, q) ==
    [log EXCEPT ![q] = [calls |-> @.calls + 1,
                        answered |-> @.answered,
                        repeats |-> IF @.answered THEN @.repeats + 1 ELSE @.repeats]]

\* the call of request r returns normally
LogAnswer(log, r) ==
    IF r.via \in {"method", "forward"} /\ r.m = "query"
    THEN [log EXCEPT ![r.q].answered = TRUE]
    ELSE log

\* nothing beside the loop has been called yet
InitLib ==
    /\ correction = <<>>
    /\ limit_exec = [started |-> FALSE, limit_count |-> 0, child |-> <<>>, consumed |-> 0,
                     remaining_tuples |-> 0, yielded |-> <<>>, done |-> FALSE]
    /\ sample_exec = [started |-> FALSE, sample_freq |-> 1, child |-> <<>>, consumed |-> 0,
                      current |-> 0, yielded |-> <<>>, done |-> FALSE]
    /\ instances = <<>>
    /\ lock = <<>>
    /\ caller = [t \in Threads |-> [pc |-> "idle", instance |-> <<>>, ref |-> <<>>, exc |-> ""]]
    /\ objects = 0

Init ==
    /\ pc = [t \in Threads |-> "idle"]
    /\ req = [t \in Threads |-> EmptyReq]
    /\ df = [t \in Threads |-> <<>>]
    /\ tmp_py = <<>>
    /\ sys_modules = <<>>
    /\ cleaned_csv = FALSE
    /\ reqs = 0
    /\ remote_log = [t \in Threads |-> NoLog]
    /\ function_catalog = {}
    /\ function_io = {}
    /\ function_cache = {}
    /\ stmts = <<>>
    /\ InitLib

CanStart(t) ==
    /\ pc[t] \in {"idle", "done"}
    /\ reqs < MaxReq

\* the call of thread t ends: execute_python ended with ex (or the call ended
\* before reaching it), and the callers above it see CallerOut
Finish(t, r, ex) ==
    /\ pc' = [pc EXCEPT ![t] = "done"]
    /\ req' = [req EXCEPT ![t] =
                 [r EXCEPT !.exout = ex,
                           !.mout = IF r.via = "exec" THEN NoOutcome
                                    ELSE MethodOut(r.m, r.q, ex),
                           !.saved = IF SavesCsv(r, ex)
                                     THEN <<MethodOut(r.m, r.q, ex).val>> ELSE <<>>,
                           !.ev = IF SavesCsv(r, ex) THEN Append(@, "save_csv") ELSE @,
                           !.out = CallerOut(r, ex)]]
    /\ cleaned_csv' = (cleaned_csv \/ SavesCsv(r, ex))

\* a request method up to its call of the remote completion client
SendPrompt(t, r, w, m, q) ==
    /\ pc' = [pc EXCEPT ![t] = "remote"]
    /\ req' = [req EXCEPT ![t] =
                 [r EXCEPT !.m = m, !.q = q, !.prompt = CreatePrompt(w, m, q),
                           !.remote = TRUE, !.empty0 = (Len(w.pd_df.rows) = 0),
                           !.built = Append(@, m),
                           !.rcalls = @ + 1,
                           !.ev = Append(@, "remote")]]
    /\ UNCHANGED cleaned_csv

-----------------------------------------------------------------------------
(* Actions *)

\* smart_df = AIDataFrame(frame) made by a user of the class
Construct(t, frame) ==
    /\ pc[t] = "idle"
    /\ df[t] = <<>>
    /\ df' = [df EXCEPT ![t] = <<NewAIDataFrame(frame, "", "user")>>]
    /\ remote_log' = [remote_log EXCEPT ![t] = NoLog]
    /\ pc' = [pc EXCEPT ![t] = "idle"]
    /\ req' = [req EXCEPT ![t] = EmptyReq]
    /\ UNCHANGED <<tmp_py, sys_modules, cleaned_csv, reqs, catVars, libVars>>

\* query_dataframe / plot_dataframe / manipulate_dataframe / clean_dataframe
\* called on the wrapper, up to the remote call
Method(t, m, q) ==
    /\ CanStart(t)
    /\ df[t] # <<>>
    /\ df[t][1].owner = "user"
    /\ SendPrompt(t, [EmptyReq EXCEPT !.via = "method"], df[t][1], m, q)
    /\ remote_log' = IF m = "query"
                     THEN [remote_log EXCEPT ![t] = LogCall(@, q)]
                     ELSE remote_log
    /\ reqs' = reqs + 1
    /\ UNCHANGED <<df, tmp_py, sys_modules, catVars, libVars>>

\* ChatWithPandas.forward on the batch of one function call, up to the remote
\* call of the branch it selects
Forward(t, tag, q, cols, n) ==
    LET batch == ArgBatch(tag, q, cols, n)
        r0 == [EmptyReq EXCEPT !.via = "forward", !.batch = <<batch>>]
    IN
    /\ CanStart(t)
    \* a process either serves function calls of the engine or uses the class
    \* directly; forward builds a wrapper of its own on every call
    /\ IF df[t] = <<>> THEN TRUE ELSE df[t][1].owner = "forward"
    /\ reqs' = reqs + 1
    /\ UNCHANGED <<tmp_py, sys_modules, catVars, libVars>>
    /\ IF Len(batch.rows) = 0
       THEN \* df.iloc[0,1] on a batch without rows
            /\ Finish(t, r0, Raise("IndexError"))
            /\ UNCHANGED <<df, remote_log>>
       ELSE LET query == batch.rows[1][2]
                type == batch.rows[1][1]
                req_df == DropColumns(batch, {ConstLabel})
                smart_df == NewAIDataFrame(req_df, "A dataframe about cars", "forward")
                r == [r0 EXCEPT !.tag = type, !.dcols = cols]
                branch == ForwardBranch(type)
            IN
            /\ df' = [df EXCEPT ![t] = <<smart_df>>]
            /\ remote_log' = [remote_log EXCEPT ![t] =
                                IF branch = "query" THEN LogCall(NoLog, query) ELSE NoLog]
            /\ CASE branch = "plot" ->
                      \* plot_dataframe(query, plot_type): one argument too many
                      Finish(t, [r EXCEPT !.m = "plot", !.q = query], Raise("TypeError"))
                 [] branch = "none" ->
                      \* no branch assigns response; line 67 reads it
                      Finish(t, [r EXCEPT !.q = query], Raise("UnboundLocalError"))
                 [] OTHER ->
                      SendPrompt(t, r, smart_df, branch, query)

\* execute_python entered with a source and a type
EnterExecutePython(t, code, type) ==
    /\ df[t] # <<>>
    /\ df[t][1].owner = "user"
    /\ pc' = [pc EXCEPT ![t] = "exec"]
    /\ req' = [req EXCEPT ![t] =
                 [EmptyReq EXCEPT !.via = "exec", !.code = <<code>>, !.type = type]]
    /\ reqs' = reqs + 1
    /\ UNCHANGED <<df, tmp_py, sys_modules, cleaned_csv, remote_log, catVars, libVars>>

\* execute_python called by a user of the class
ExecutePython(t, code, type) ==
    /\ CanStart(t)
    /\ EnterExecutePython(t, code, type)

\* execute_python called once by each of two threads of one process
ConcExecutePython(t, code, type) ==
    /\ pc[t] = "idle"
    /\ EnterExecutePython(t, code, type)

\* the text of the last choice instead of the first
TopChoice_LastChoice(completion) == completion[Len(completion)]

\* completion.choices[0].message.content
TopChoice(completion) == completion[1]

\* the completion arrives; the method calls execute_python with the text of
\* its top choice and with its type
RemoteReply(t, completion) ==
    /\ pc[t] = "remote"
    /\ pc' = [pc EXCEPT ![t] = "exec"]
    /\ req' = [req EXCEPT ![t].completion = completion,
                          ![t].code = <<TopChoice(completion)>>,
                          ![t].type = MethodType(req[t].m)]
    /\ UNCHANGED <<df, tmp_py, sys_modules, cleaned_csv, reqs, remote_log, catVars, libVars>>

\* a request method that calls the remote client a second time when the
\* first call raised
RemoteFail_Retry(t) ==
    /\ pc[t] = "remote"
    /\ IF req[t].rcalls < 2
       THEN /\ req' = [req EXCEPT ![t].rcalls = @ + 1, ![t].ev = Append(@, "remote")]
            /\ UNCHANGED <<pc, cleaned_csv>>
       ELSE Finish(t, req[t], Raise("APIError"))
    /\ UNCHANGED <<df, tmp_py, sys_modules, reqs, remote_log, catVars, libVars>>

\* a request method that has opened tmp.py for writing before its remote call
RemoteFail_LeavesFile(t) ==
    /\ pc[t] = "remote"
    /\ Finish(t, req[t], Raise("APIError"))
    /\ tmp_py' = <<[code |-> Prog("pandas_query_function", TRUE, NoneV, "none"),
                    by |-> t]>>
    /\ UNCHANGED <<df, sys_modules, reqs, remote_log, catVars, libVars>>

\* the remote call raises (network, authentication, rate limit)
RemoteFail(t) ==
    /\ pc[t] = "remote"
    /\ Finish(t, req[t], Raise("APIError"))
    /\ UNCHANGED <<df, tmp_py, sys_modules, reqs, remote_log, catVars, libVars>>

\* execute_python: the branch test and the write of tmp.py
WriteTmp(t) ==
    LET r == [req[t] EXCEPT !.execd = TRUE] IN
    /\ pc[t] = "exec"
    /\ IF r.type \in ExecTypes
       THEN /\ tmp_py' = <<[code |-> r.code[1], by |-> t]>>
            /\ pc' = [pc EXCEPT ![t] = "written"]
            /\ req' = [req EXCEPT ![t] = [r EXCEPT !.ev = Append(@, "write")]]
            /\ UNCHANGED cleaned_csv
       ELSE \* no branch matches: the method body ends, None is returned
            /\ Finish(t, r, Return(NoneV))
            /\ UNCHANGED tmp_py
    /\ UNCHANGED <<df, sys_modules, reqs, remote_log, catVars, libVars>>

\* execute_python: from tmp import <name of the branch>
ImportTmp(t) ==
    LET r == [req[t] EXCEPT !.name = ExecFnName(req[t].type),
                            !.ev = Append(@, "load")]
        mod == FindTmp(sys_modules, tmp_py)
    IN
    /\ pc[t] = "written"
    /\ IF LoadFails(sys_modules, tmp_py)
       THEN /\ Finish(t, r, Raise("SyntaxError"))
            /\ UNCHANGED sys_modules
       ELSE /\ sys_modules' = <<mod>>
            /\ IF r.name \in mod.defs
               THEN /\ pc' = [pc EXCEPT ![t] = "loaded"]
                    /\ req' = [req EXCEPT ![t] = [r EXCEPT !.fn = <<mod>>]]
                    /\ UNCHANGED cleaned_csv
               ELSE Finish(t, r, Raise("ImportError"))
    /\ UNCHANGED <<df, tmp_py, reqs, remote_log, catVars, libVars>>

\* execute_python: the imported function is called with self.pd_df
CallFn(t) ==
    LET prog == req[t].fn[1].code[1]
        w == df[t][1]
        r == [req[t] EXCEPT !.args = <<w.pd_df>>, !.ev = Append(@, "call")]
    IN
    /\ pc[t] = "loaded"
    /\ IF prog.raises
       THEN /\ Finish(t, r, Raise("RuntimeError"))
            /\ UNCHANGED df
       ELSE /\ df' = [df EXCEPT ![t] =
                        <<[w EXCEPT !.pd_df = ApplyEffect(w.pd_df, prog.eff)]>>]
            /\ pc' = [pc EXCEPT ![t] = "ran"]
            /\ req' = [req EXCEPT ![t] = [r EXCEPT !.ret = prog.ret]]
            /\ UNCHANGED cleaned_csv
    /\ UNCHANGED <<tmp_py, sys_modules, reqs, remote_log, catVars, libVars>>

\* an executor that returns without removing tmp.py
RemoveTmp_NoDelete(t) ==
    /\ pc[t] = "ran"
    /\ Finish(t, req[t], Return(ExecReturn(req[t].type, req[t].ret)))
    /\ remote_log' = [remote_log EXCEPT ![t] = LogAnswer(@, req[t])]
    /\ UNCHANGED <<df, tmp_py, sys_modules, reqs, catVars, libVars>>

\* execute_python: os.remove("tmp.py") and the return, then the tails of the
\* request method and of forward
RemoveTmp(t) ==
    /\ pc[t] = "ran"
    /\ IF tmp_py = <<>>
       THEN /\ Finish(t, req[t], Raise("FileNotFoundError"))
            /\ UNCHANGED <<tmp_py, remote_log>>
       ELSE /\ tmp_py' = <<>>
            /\ Finish(t, [req[t] EXCEPT !.ev = Append(@, "delete")],
                      Return(ExecReturn(req[t].type, req[t].ret)))
            /\ remote_log' = [remote_log EXCEPT ![t] = LogAnswer(@, req[t])]
    /\ UNCHANGED <<df, sys_modules, reqs, catVars, libVars>>

-----------------------------------------------------------------------------
(* The engine's function catalog: CREATE FUNCTION and DROP FUNCTION *)

loopVars == <<pc, req, df, tmp_py, sys_modules, cleaned_csv, reqs, remote_log>>

FunctionNames == {"ChatWithPandas", "Similarity"}

\* implementation paths as the statements give them, one token per component
ImplPaths ==
    { <<".", "functions", "chat_with_df.py">>,
      <<".", "functions", "chat_v2.py">>,
      <<".", "functions", "missing.py">> }

\* Path.absolute().as_posix() of a relative path: the working directory of
\* the process, then the components of the path
AbsolutePath(path) ==
    <<"/", "app">> \o (IF Head(path) = "." THEN Tail(path) ELSE path)

\* the implementation files whose class loads and initialises
LoadableImpls ==
    { <<"/", "app", "functions", "chat_with_df.py">>,
      <<"/", "app", "functions", "chat_v2.py">> }

\* Batch(pd.DataFrame([msg])): the one-cell table a statement answers with
StmtBatch(msg) == [kind |-> "return", exc |-> "", val |-> StrV(msg), cols |-> <<ConstLabel>>]

StmtRaise(e, msg) == [kind |-> "raise", exc |-> e, val |-> StrV(msg), cols |-> <<>>]

AlreadyExistsMsg(name) == <<"Function", SP, name, SP, "already exists.">>

NothingAddedMsg(name) == <<"Function", SP, name, SP, "already exists, nothing added.">>

NotExistMsg(name) ==
    <<"Function", SP, name, SP, "does not exist, therefore cannot be dropped.">>

DroppedMsg(name) == <<"Function", SP, name, SP, "successfully dropped">>

AddedMsg(name) == <<"Function", SP, name, SP, "added to the database.">>

OverwrittenMsg(name) == <<"Function", SP, name, SP, "overwritten.">>

CreateErrorMsg(name) == <<"Error creating function", SP, name>>

FunctionRow(name, impl_path, type) ==
    [name |-> name, impl_path |-> impl_path, type |-> type]

\* the key-value pairs a CREATE FUNCTION statement may carry, by key
MetadataLists == { <<>>, <<"model">> }

\* the columns the forward decorator of the implementation declares: the
\* input column, then the output column
IoList(impl_path) == <<"data", "response">>

\* the function caches the engine may keep for the calls of a function
CacheNames == <<"c1", "c2">>

\* the storage operation of a statement that fails, if one does
Faults == {"none", "delete", "add_rows"}

\* a row of the io table or of the metadata table, tied to its function
IoRow(function, kind, name) == [function |-> function, kind |-> kind, name |-> name]

CacheRow(function, name) == [function |-> function, name |-> name]

\* the rows select(...).filter(name == name) finds
RowsNamed(cat, name) == { e \in cat : e.name = name }

\* the io, metadata or cache rows tied to a function
RowsOf(rows, function) == { r \in rows : r.function = function }

\* the io and metadata objects insert_entry builds for a function
NewRows(name, io_list, metadata) ==
    { IoRow(name, "io", io_list[i]) : i \in 1..Len(io_list) } \cup
    { IoRow(name, "metadata", metadata[i]) : i \in 1..Len(metadata) }

\* the catalog a statement works on: function rows, io and metadata rows,
\* function caches
Catalog == [fn |-> function_catalog, io |-> function_io, cache |-> function_cache]

\* FunctionCatalogService.get_entry_by_name: the row of that name, if any
get_entry_by_name(cat, name) ==
    IF RowsNamed(cat, name) = {} THEN <<>>
    ELSE <<CHOOSE e \in RowsNamed(cat, name) : TRUE>>

\* FunctionCatalogEntry.dep_caches: the caches that depend on the function,
\* in the order of the list
dep_caches(cat, name) ==
    LET all == [i \in 1..Len(CacheNames) |-> CacheRow(name, CacheNames[i])]
    IN SelectSeq(all, LAMBDA c : c \in cat.cache)

\* FunctionCatalogService.delete_entry_by_name: the row and the io and
\* metadata rows that go with it are deleted and True is returned; when the
\* row is not found or the delete fails the exception is logged and False is
\* returned
delete_entry_by_name(cat, name, fault) ==
    IF fault = "delete" \/ RowsNamed(cat.fn, name) = {}
    THEN [cat |-> cat, ok |-> FALSE]
    ELSE [cat |-> [cat EXCEPT !.fn = @ \ RowsNamed(@, name),
                              !.io = @ \ RowsOf(@, name)],
          ok |-> TRUE]

\* an insert whose failure path rolls the session back and leaves the saved
\* function row in place
insert_entry_KeepsFunctionRow(cat, name, impl_path, type, io_list, metadata, fault) ==
    IF RowsNamed(cat.fn, name) # {}
    THEN [cat |-> cat, exc |-> "CatalogError"]
    ELSE LET saved == [cat EXCEPT !.fn = @ \cup {FunctionRow(name, impl_path, type)}]
         IN IF fault = "add_rows"
            THEN [cat |-> saved, exc |-> "CatalogError"]
            ELSE [cat |-> [saved EXCEPT !.io = @ \cup NewRows(name, io_list, metadata)],
                  exc |-> ""]

\* FunctionCatalogService.insert_entry: the function row is saved (the name
\* is unique: saving a second row of a name fails); then the io and metadata
\* rows are added and committed together; when that fails the session is
\* rolled back, the function row is deleted and CatalogError is raised
insert_entry(cat, name, impl_path, type, io_list, metadata, fault) ==
    IF RowsNamed(cat.fn, name) # {}
    THEN [cat |-> cat, exc |-> "CatalogError"]
    ELSE LET saved == [cat EXCEPT !.fn = @ \cup {FunctionRow(name, impl_path, type)}]
         IN IF fault = "add_rows"
            THEN [cat |-> [saved EXCEPT !.fn = @ \ {FunctionRow(name, impl_path, type)}],
                  exc |-> "CatalogError"]
            ELSE [cat |-> [saved EXCEPT !.io = @ \cup NewRows(name, io_list, metadata)],
                  exc |-> ""]

\* one operation a statement performed on the catalog
Step(op, name) == [op |-> op, name |-> name]

\* a drop that answers "successfully dropped" and leaves the row in place
HandleDropFunction_KeepsRow(cat, function_name, if_exists, fault) ==
    IF get_entry_by_name(cat.fn, function_name) = <<>>
    THEN IF if_exists
         THEN [cat |-> cat, out |-> StmtBatch(NotExistMsg(function_name)), steps |-> <<>>]
         ELSE [cat |-> cat, out |-> StmtRaise("RuntimeError", NotExistMsg(function_name)),
               steps |-> <<>>]
    ELSE [cat |-> cat, out |-> StmtBatch(DroppedMsg(function_name)), steps |-> <<>>]

\* DropObjectExecutor._handle_drop_function: the catalog it leaves, its
\* outcome and the catalog operations it performed, in order.  The value
\* delete_function_catalog_entry_by_name returns is not looked at.
HandleDropFunction(cat, function_name, if_exists, fault) ==
    IF get_entry_by_name(cat.fn, function_name) = <<>>
    THEN IF if_exists
         THEN [cat |-> cat, out |-> StmtBatch(NotExistMsg(function_name)), steps |-> <<>>]
         ELSE [cat |-> cat, out |-> StmtRaise("RuntimeError", NotExistMsg(function_name)),
               steps |-> <<>>]
    ELSE LET deps == dep_caches(cat, function_name)
             uncached == [cat EXCEPT !.cache = @ \ { deps[i] : i \in 1..Len(deps) }]
         IN [cat |-> delete_entry_by_name(uncached, function_name, fault).cat,
             out |-> StmtBatch(DroppedMsg(function_name)),
             steps |-> [i \in 1..Len(deps) |-> Step("drop_cache", deps[i].name)] \o
                       <<Step("delete_function", function_name)>>]

\* handle_generic_function and the insert that follows it: the class is
\* loaded from the absolute path, then the rows are inserted
InsertGeneric(cat, node, overwrite, fault) ==
    LET impl_path == AbsolutePath(node.impl_path)
        ins == insert_entry(cat, node.name, impl_path, node.function_type,
                            IoList(impl_path), node.metadata, fault)
    IN
    IF impl_path \notin LoadableImpls
    THEN [cat |-> cat, out |-> StmtRaise("RuntimeError", CreateErrorMsg(node.name))]
    ELSE IF ins.exc # ""
         THEN [cat |-> ins.cat, out |-> StmtRaise(ins.exc, <<>>)]
         ELSE [cat |-> ins.cat,
               out |-> StmtBatch(IF overwrite THEN OverwrittenMsg(node.name)
                                 ELSE AddedMsg(node.name))]

\* CreateFunctionExecutor.exec for a function of the generic type
CreateFunctionExec(cat, node, fault) ==
    IF node.if_not_exists /\ node.or_replace
    THEN [cat |-> cat, out |-> StmtRaise("AssertionError", <<>>)]
    ELSE IF get_entry_by_name(cat.fn, node.name) # <<>>
         THEN IF node.if_not_exists
              THEN [cat |-> cat, out |-> StmtBatch(NothingAddedMsg(node.name))]
              ELSE IF node.or_replace
                   THEN InsertGeneric(HandleDropFunction(cat, node.name, FALSE, fault).cat,
                                      node, TRUE, fault)
                   ELSE [cat |-> cat,
                         out |-> StmtRaise("RuntimeError", AlreadyExistsMsg(node.name))]
         ELSE InsertGeneric(cat, node, FALSE, fault)

\* the statement joins the record of the last two statements
Executed(stmt) == IF Len(stmts) < 2 THEN Append(stmts, stmt) ELSE <<stmts[2], stmt>>

\* CREATE [OR REPLACE] FUNCTION [IF NOT EXISTS] name IMPL path [metadata]
CreateFunction(name, path, if_not_exists, or_replace, metadata, fault) ==
    LET node == [name |-> name, impl_path |-> path, if_not_exists |-> if_not_exists,
                 or_replace |-> or_replace, function_type |-> "None",
                 metadata |-> metadata]
        res == CreateFunctionExec(Catalog, node, fault)
    IN
    /\ function_catalog' = res.cat.fn
    /\ function_io' = res.cat.io
    /\ function_cache' = res.cat.cache
    /\ stmts' = Executed([op |-> "create", name |-> name, impl_path |-> path,
                          if_not_exists |-> if_not_exists, or_replace |-> or_replace,
                          if_exists |-> FALSE, metadata |-> metadata, fault |-> fault,
                          before |-> get_entry_by_name(function_catalog, name),
                          steps |-> <<>>,
                          out |-> res.out])
    /\ UNCHANGED <<loopVars, libVars>>

\* DROP FUNCTION [IF EXISTS] name
DropFunction(name, if_exists, fault) ==
    LET res == HandleDropFunction(Catalog, name, if_exists, fault) IN
    /\ function_catalog' = res.cat.fn
    /\ function_io' = res.cat.io
    /\ function_cache' = res.cat.cache
    /\ stmts' = Executed([op |-> "drop", name |-> name, impl_path |-> <<>>,
                          if_not_exists |-> FALSE, or_replace |-> FALSE,
                          if_exists |-> if_exists, metadata |-> <<>>, fault |-> fault,
                          before |-> get_entry_by_name(function_catalog, name),
                          steps |-> res.steps,
                          out |-> res.out])
    /\ UNCHANGED <<loopVars, libVars>>

\* a query that calls the function with caching on: the engine registers a
\* cache that depends on the function
CacheFunction(name, cache) ==
    /\ get_entry_by_name(function_catalog, name) # <<>>
    /\ CacheRow(name, cache) \notin function_cache
    /\ function_cache' = function_cache \cup {CacheRow(name, cache)}
    /\ UNCHANGED <<function_catalog, function_io, stmts, loopVars, libVars>>

-----------------------------------------------------------------------------
(* ErrorCorrectionPrompt.get_prompt *)

\* the failing sources and error texts a caller may hand over
FailingSources ==
    { <<"def pandas_query_function(df):", "\n", SP, SP, SP, SP, "return df.gear.mean(">>,
      <<"def pandas_query_function(df):", "\n", SP, SP, SP, SP, "return df['speed'].mean()">>,
      <<"import pandas as pd">> }

ErrorTexts ==
    { <<"SyntaxError: unexpected EOF while parsing">>,
      <<"KeyError:", SP, "'speed'">>,
      <<"cannot import name 'pandas_query_function' from 'tmp'">> }

\* str(df) of a DataFrame: the header and one line per row led by its index,
\* or the three lines pandas prints for a frame without rows
DfRepr(frame) ==
    IF Len(frame.rows) = 0
    THEN <<"Empty DataFrame", "\n", "Columns:", SP, "[">> \o
         Concat([j \in 1..Len(frame.cols) |->
                    (IF j = 1 THEN <<>> ELSE <<",", SP>>) \o <<frame.cols[j]>>]) \o
         <<"]", "\n", "Index: []">>
    ELSE Concat([j \in 1..Len(frame.cols) |-> <<SP, frame.cols[j]>>]) \o
         Concat([i \in 1..Len(frame.rows) |->
                    <<"\n", ToString(i - 1)>> \o
                    Concat([j \in 1..Len(frame.rows[i]) |->
                               <<SP, frame.rows[i][j][1], "#",
                                 ToString(frame.rows[i][j][2])>>])])

\* the lines of the f-string start with the indentation of the method body
BodyIndent == <<"\n">> \o Spaces(8)

\* a template that puts the second positional argument in the code slot and
\* the third in the error slot
get_prompt_SlotsSwapped(frame, argv) ==
    LET user_question == argv[1]
        error == argv[3]
        python_code == argv[2]
    IN
    BodyIndent \o <<"Given the following pandas dataframe", SP>> \o DfRepr(frame) \o
    <<",", SP, "and the following question was asked", SP>> \o user_question \o <<".">> \o
    BodyIndent \o <<"The following python code was generated", SP, ":", SP>> \o
    python_code \o <<".">> \o
    BodyIndent \o <<"This code gave the following error:", SP>> \o error \o <<".">> \o
    BodyIndent \o
    <<"Correct the python code and return a new python code (do not import anything) that fixes the above mentioned error.",
      SP>> \o
    BodyIndent \o <<"Do not generate the same code again.">> \o BodyIndent

\* ErrorCorrectionPrompt.get_prompt(df, *argv): argv holds the question, the
\* error and the code, in this order
get_prompt(frame, argv) ==
    LET user_question == argv[1]
        error == argv[2]
        python_code == argv[3]
    IN
    BodyIndent \o <<"Given the following pandas dataframe", SP>> \o DfRepr(frame) \o
    <<",", SP, "and the following question was asked", SP>> \o user_question \o <<".">> \o
    BodyIndent \o <<"The following python code was generated", SP, ":", SP>> \o
    python_code \o <<".">> \o
    BodyIndent \o <<"This code gave the following error:", SP>> \o error \o <<".">> \o
    BodyIndent \o
    <<"Correct the python code and return a new python code (do not import anything) that fixes the above mentioned error.",
      SP>> \o
    BodyIndent \o <<"Do not generate the same code again.">> \o BodyIndent

\* a caller renders the prompt for a dataset, a question, the source that
\* failed and the error it gave
GetPrompt(frame, question, source, error) ==
    /\ correction' = <<[df |-> frame, question |-> question, source |-> source,
                        error |-> error,
                        text |-> get_prompt(frame, <<question, error, source>>)]>>
    /\ UNCHANGED <<loopVars, catVars, limit_exec, sample_exec, sqlVars>>

-----------------------------------------------------------------------------
(* Batches, LimitExecutor.exec and SampleExecutor.exec *)

\* a batch is the sequence of its rows; a row of a child's output is named by
\* its position, from 0, in the concatenation of the batches the child yields
BatchOf(first, n) == [i \in 1..n |-> first + i - 1]

RECURSIVE ChildFrom(_, _)
ChildFrom(lens, first) ==
    IF lens = <<>> THEN <<>>
    ELSE <<BatchOf(first, Head(lens))>> \o ChildFrom(Tail(lens), first + Head(lens))

\* what a child executor may yield: up to MaxBatches batches of up to
\* MaxBatchLen rows each
ChildOutputs ==
    { ChildFrom(lens, 0) :
        lens \in UNION { [1..k -> 0..MaxBatchLen] : k \in 0..MaxBatches } }

\* a field of a slice is None (<<>>) or a number (<<n>>); None and 0 are
\* the values "if x" takes for false
Falsy(x) == IF x = <<>> THEN TRUE ELSE x[1] = 0

\* range(start, end, step) for a step above 0
PyRange(start, end, step) ==
    [k \in 1..(IF end > start THEN (end - start + step - 1) \div step ELSE 0) |->
        start + (k - 1) * step]

\* Batch.__getitem__ for a slice start:stop:step, then
\* _get_frames_from_indices
GetItem(batch, start, stop, step) ==
    LET s == IF Falsy(start) THEN 0 ELSE start[1]
        e0 == IF Falsy(stop) THEN Len(batch) ELSE stop[1]
        end == IF e0 < 0 THEN Len(batch) + e0 ELSE e0
        st == IF Falsy(step) THEN 1 ELSE step[1]
        ids == PyRange(s, end, st)
    IN [k \in 1..Len(ids) |-> batch[ids[k] + 1]]

\* LimitExecutor.exec is called: remaining_tuples = self._limit_count
LimitExec(limit_count, child) ==
    /\ ~limit_exec.started
    /\ limit_exec' = [started |-> TRUE, limit_count |-> limit_count, child |-> child,
                      consumed |-> 0, remaining_tuples |-> limit_count,
                      yielded |-> <<>>, done |-> FALSE]
    /\ UNCHANGED <<loopVars, catVars, correction, sample_exec, sqlVars>>

\* one turn of the loop of LimitExecutor.exec: the next batch is pulled from
\* the child and a batch is yielded, or the child is exhausted
LimitStep ==
    /\ limit_exec.started
    /\ ~limit_exec.done
    /\ IF limit_exec.consumed = Len(limit_exec.child)
       THEN limit_exec' = [limit_exec EXCEPT !.done = TRUE]
       ELSE LET batch == limit_exec.child[limit_exec.consumed + 1]
                remaining_tuples == limit_exec.remaining_tuples
            IN IF Len(batch) > remaining_tuples
               THEN limit_exec' =
                       [limit_exec EXCEPT
                           !.consumed = @ + 1,
                           !.yielded = Append(@, GetItem(batch, <<>>, <<remaining_tuples>>, <<>>)),
                           !.done = TRUE]
               ELSE limit_exec' =
                       [limit_exec EXCEPT
                           !.consumed = @ + 1,
                           !.remaining_tuples = @ - Len(batch),
                           !.yielded = Append(@, batch),
                           !.done = (remaining_tuples - Len(batch) <= 0)]
    /\ UNCHANGED <<loopVars, catVars, correction, sample_exec, sqlVars>>

\* SampleExecutor.exec is called: current = 0
SampleExec(sample_freq, child) ==
    /\ ~sample_exec.started
    /\ sample_exec' = [started |-> TRUE, sample_freq |-> sample_freq, child |-> child,
                       consumed |-> 0, current |-> 0, yielded |-> <<>>, done |-> FALSE]
    /\ UNCHANGED <<loopVars, catVars, correction, limit_exec, sqlVars>>

\* an offset that starts every batch at its first row
NextCurrent_StartsOver(current, n, sample_freq) == 0

\* current = (current - len(batch)) % self._sample_freq
NextCurrent(current, n, sample_freq) == (current - n) % sample_freq

\* one turn of the loop of SampleExecutor.exec
SampleStep ==
    /\ sample_exec.started
    /\ ~sample_exec.done
    /\ IF sample_exec.consumed = Len(sample_exec.child)
       THEN sample_exec' = [sample_exec EXCEPT !.done = TRUE]
       ELSE LET batch == sample_exec.child[sample_exec.consumed + 1]
                result_batch == GetItem(batch, <<sample_exec.current>>, <<>>,
                                        <<sample_exec.sample_freq>>)
            IN sample_exec' =
                  [sample_exec EXCEPT
                      !.consumed = @ + 1,
                      !.yielded = Append(@, result_batch),
                      !.current = NextCurrent(@, Len(batch), sample_exec.sample_freq)]
    /\ UNCHANGED <<loopVars, catVars, correction, limit_exec, sqlVars>>

-----------------------------------------------------------------------------
(* SingletonMeta.__call__ and SQLConfig.__init__ *)

\* the objects some thread holds a strong reference to: through the local
\* "instance" of a call in progress or through what a caller kept
Referenced(c) ==
    { o \in 1..MaxObjects : \E t \in Threads : c[t].instance = <<o>> \/ c[t].ref = <<o>> }

\* WeakValueDictionary: the entry goes when the last strong reference to its
\* value goes
Collected(inst, c) ==
    IF inst = <<>> THEN <<>>
    ELSE IF inst[1] \in Referenced(c) THEN inst ELSE <<>>

otherVars == <<loopVars, catVars, correction, limit_exec, sample_exec>>

\* a thread calls SQLConfig(uri)
SQLConfigCall(t) ==
    /\ caller[t].pc = "idle"
    /\ objects < MaxObjects
    /\ caller' = [caller EXCEPT ![t].pc = "lock"]
    /\ UNCHANGED <<instances, lock, objects, otherVars>>

\* with cls._lock: the lock is taken
Acquire(t) ==
    /\ caller[t].pc = "lock"
    /\ lock = <<>>
    /\ lock' = <<t>>
    /\ caller' = [caller EXCEPT ![t].pc = "check"]
    /\ UNCHANGED <<instances, objects, otherVars>>

\* if key not in cls._instances
CheckKey(t) ==
    /\ caller[t].pc = "check"
    /\ caller' = [caller EXCEPT ![t].pc = IF instances = <<>> THEN "init" ELSE "unlock"]
    /\ UNCHANGED <<instances, lock, objects, otherVars>>

\* instance = super().__call__(uri): SQLConfig.__init__ runs
NewInstance(t) ==
    /\ caller[t].pc = "init"
    /\ objects' = objects + 1
    /\ caller' = [caller EXCEPT ![t].pc = "store", ![t].instance = <<objects + 1>>]
    /\ UNCHANGED <<instances, lock, otherVars>>

\* cls._instances[key] = instance
Store(t) ==
    /\ caller[t].pc = "store"
    /\ instances' = caller[t].instance
    /\ caller' = [caller EXCEPT ![t].pc = "unlock"]
    /\ UNCHANGED <<lock, objects, otherVars>>

\* the with block is left: the lock is released
Release(t) ==
    /\ caller[t].pc = "unlock"
    /\ lock' = <<>>
    /\ caller' = [caller EXCEPT ![t].pc = "lookup"]
    /\ UNCHANGED <<instances, objects, otherVars>>

\* return cls._instances[key]: the registry is read outside the lock; a
\* missing key raises KeyError; the frame of __call__ and its local go
Lookup(t) ==
    /\ caller[t].pc = "lookup"
    /\ LET c == [caller EXCEPT ![t] = [pc |-> "done", instance |-> <<>>,
                                      ref |-> instances,
                                      exc |-> IF instances = <<>> THEN "KeyError" ELSE ""]]
       IN /\ caller' = c
          /\ instances' = Collected(instances, c)
    /\ UNCHANGED <<lock, objects, otherVars>>

\* the caller lets go of what the call gave it
Discard(t) ==
    /\ caller[t].pc = "done"
    /\ LET c == [caller EXCEPT ![t] = [pc |-> "idle", instance |-> <<>>, ref |-> <<>>,
                                      exc |-> ""]]
       IN /\ caller' = c
          /\ instances' = Collected(instances, c)
    /\ UNCHANGED <<lock, objects, otherVars>>

-----------------------------------------------------------------------------
(* Specifications *)

\* type strings a direct caller of execute_python passes; "cleaning" is the
\* tag of forward, which no branch of execute_python tests for
ExecTypeInputs == {"query", "image_analysis", "cleaning"}

Methods == {"query", "plot", "manipulation", "cleaning"}

\* one caller: the loop as the program runs it, single-threaded
Next ==
    \/ \E frame \in Frames : Construct(1, frame)
    \/ \E m \in Methods, q \in Instructions : Method(1, m, q)
    \/ \E tag \in Tags, q \in Instructions, cols \in ColumnLists, n \in 0..MaxRows :
          Forward(1, tag, q, cols, n)
    \/ \E code \in Programs, type \in ExecTypeInputs : ExecutePython(1, code, type)
    \/ \E completion \in Completions : RemoteReply(1, completion)
    \/ RemoteFail(1)
    \/ WriteTmp(1)
    \/ ImportTmp(1)
    \/ CallFn(1)
    \/ RemoveTmp(1)

Spec == Init /\ [][Next]_vars

\* two requests that share the process, its working directory and its module
\* cache, each on a wrapper of its own, interleaved at the statements of
\* execute_python
ConcFrames == { Frame(cols, 1) : cols \in ColumnLists }

InitConc ==
    /\ pc = [t \in Threads |-> "idle"]
    /\ req = [t \in Threads |-> EmptyReq]
    /\ df \in [Threads -> { <<NewAIDataFrame(f, "", "user")>> : f \in ConcFrames }]
    /\ tmp_py = <<>>
    /\ sys_modules = <<>>
    /\ cleaned_csv = FALSE
    /\ reqs = 0
    /\ remote_log = [t \in Threads |-> NoLog]
    /\ function_catalog = {}
    /\ function_io = {}
    /\ function_cache = {}
    /\ stmts = <<>>
    /\ InitLib

NextConc ==
    \E t \in Threads :
        \/ \E code \in Programs, type \in ExecTypeInputs : ConcExecutePython(t, code, type)
        \/ WriteTmp(t)
        \/ ImportTmp(t)
        \/ CallFn(t)
        \/ RemoveTmp(t)

SpecConc == InitConc /\ [][NextConc]_vars

\* one session of the engine executing statements on its function catalog
NextCatalog ==
    \/ \E name \in FunctionNames, path \in ImplPaths,
          if_not_exists \in BOOLEAN, or_replace \in BOOLEAN :
          CreateFunction(name, path, if_not_exists, or_replace, <<>>, "none")
    \/ \E name \in FunctionNames, if_exists \in BOOLEAN :
          DropFunction(name, if_exists, "none")

SpecCatalog == Init /\ [][NextCatalog]_vars

\* the implementation paths of the statements of that session
FaultImplPaths ==
    { <<".", "functions", "chat_with_df.py">>, <<".", "functions", "missing.py">> }

\* the same session on a storage where one operation of a statement may
\* fail, with queries that register function caches in between
NextCatalogFault ==
    \/ \E path \in FaultImplPaths, if_not_exists \in BOOLEAN, or_replace \in BOOLEAN,
          metadata \in MetadataLists, fault \in Faults :
          CreateFunction("ChatWithPandas", path, if_not_exists, or_replace, metadata, fault)
    \/ \E if_exists \in BOOLEAN, fault \in Faults :
          DropFunction("ChatWithPandas", if_exists, fault)
    \/ \E i \in 1..Len(CacheNames) : CacheFunction("ChatWithPandas", CacheNames[i])

SpecCatalogFault == Init /\ [][NextCatalogFault]_vars

\* a caller of the error-correction prompt, on its own
NextCorrection ==
    \E frame \in Frames, question \in Instructions,
       source \in FailingSources, error \in ErrorTexts :
        GetPrompt(frame, question, source, error)

SpecCorrection == Init /\ [][NextCorrection]_vars

\* a LIMIT over a child executor, pulled to its end
NextLimit ==
    \/ \E limit_count \in 0..MaxLimit, child \in ChildOutputs : LimitExec(limit_count, child)
    \/ LimitStep

SpecLimit == Init /\ [][NextLimit]_vars

\* a SAMPLE over a child executor, pulled to its end
NextSample ==
    \/ \E sample_freq \in 1..MaxFreq, child \in ChildOutputs : SampleExec(sample_freq, child)
    \/ SampleStep

SpecSample == Init /\ [][NextSample]_vars

\* threads that call SQLConfig(uri) with one uri and drop what they get
NextSingleton ==
    \E t \in Threads :
        \/ SQLConfigCall(t)
        \/ Acquire(t)
        \/ CheckKey(t)
        \/ NewInstance(t)
        \/ Store(t)
        \/ Release(t)
        \/ Lookup(t)
        \/ Discard(t)

SpecSingleton == Init /\ [][NextSingleton]_vars

-----------------------------------------------------------------------------
(* Claims *)

InFlight(t) == pc[t] \notin {"idle", "done"}

\* C1: after any call of execute_python, returned or raised, tmp.py does not
\* exist in the working directory.
C1_NoStrayTmpAfterCall ==
    \A t \in Threads :
        (pc[t] = "done" /\ req[t].execd) => tmp_py = <<>>

\* C2: the function a call of execute_python invokes is the one defined by
\* the source text passed to that call, loaded from the file the call wrote.
C2_InvokesOwnSource ==
    \A t \in Threads :
        pc[t] \in {"loaded", "ran"} =>
            /\ req[t].fn[1].origin = "cwd"
            /\ req[t].fn[1].code = req[t].code

\* C3: of two requests running at the same time, neither loads or executes
\* source text written by the other.
C3_NoInterleavedSource ==
    \A t \in Threads, u \in Threads :
        (t # u /\ pc[t] \in {"loaded", "ran"} /\ InFlight(u)) =>
            req[t].fn[1].by # u

\* C4: on one wrapper, once query_dataframe has answered an instruction
\* string, issuing the same string again makes no further call of the remote
\* completion client (at most one call for the two issues).
C4_SameInstructionOneRemoteCall ==
    \A t \in Threads, q \in Instructions : remote_log[t][q].repeats = 0

UnsupportedKind(r) ==
    \/ r.via = "forward" /\ r.tag \in (Tags \ SupportedTags)
    \/ r.via = "exec" /\ r.type \notin ExecTypes

\* the dispatch ended without selecting a branch
FellThrough(r) ==
    \/ r.via = "forward" /\ r.out.exc = "UnboundLocalError"
    \/ r.via = "exec" /\ r.type \notin ExecTypes /\ r.out = Return(NoneV)

\* C5: a task kind outside the supported set is answered by a deliberate
\* error, never by falling through the dispatch.
C5_UnsupportedKindRejected ==
    \A t \in Threads :
        (pc[t] = "done" /\ UnsupportedKind(req[t])) =>
            /\ ~FellThrough(req[t])
            /\ req[t].out.kind = "raise"

GeneratedCodeFailed(r) ==
    r.exout.exc \in {"SyntaxError", "ImportError", "RuntimeError"}

RemoteFailed(r) == r.exout.exc = "APIError"

\* C6: for every supported kind, when the remote call and the generated code
\* succeed, forward returns a table of one column named response and one row
\* that holds a string.
C6_ForwardReturnsStringTable ==
    \A t \in Threads :
        (/\ pc[t] = "done"
         /\ req[t].via = "forward"
         /\ req[t].tag \in SupportedTags
         /\ ~RemoteFailed(req[t])
         /\ ~GeneratedCodeFailed(req[t])) =>
            /\ req[t].out.kind = "return"
            /\ req[t].out.cols = <<"response">>
            /\ IsString(req[t].out.val)

\* C7: a query request over data columns c1..cn with instruction q sends a
\* prompt holding "n columns" and the list of those names, calls
\* pandas_query_function with the dataset, and answers with a text holding q
\* and the value returned by the function generated for the request.
C7_QueryEndToEnd ==
    \A t \in Threads :
        (/\ pc[t] = "done"
         /\ req[t].via = "forward"
         /\ req[t].tag = "query"
         /\ req[t].out.kind = "return") =>
            /\ Contains(req[t].prompt,
                        <<ToString(Len(req[t].dcols)), SP, "columns">>)
            /\ Contains(req[t].prompt, PyList(req[t].dcols))
            /\ req[t].name = "pandas_query_function"
            /\ Len(req[t].args) = 1
            /\ req[t].args[1].cols = req[t].dcols
            /\ Contains(req[t].out.val.s, req[t].q)
            /\ Contains(req[t].out.val.s, PyStr(req[t].code[1].ret))

\* C8: in every state of a wrapper, is_df_loaded holds exactly when the
\* wrapped dataset has at least one row.
C8_LoadedIffNonEmpty ==
    \A t \in Threads :
        df[t] # <<>> =>
            (df[t][1].is_df_loaded <=> Len(df[t][1].pd_df.rows) > 0)

\* C9: a request method on a wrapper over zero rows fails before the remote
\* client is called and before generated code is written or run.
C9_EmptyDatasetFailsFast ==
    \A t \in Threads :
        (req[t].via = "method" /\ req[t].empty0) =>
            /\ ~req[t].remote
            /\ ~req[t].execd
            /\ pc[t] = "done"
            /\ req[t].out.kind = "raise"

\* C10: for each kind, the function name its prompt tells the model to define
\* is the name the executor imports for the type string the kind's request
\* method passes, and the function is called with the dataset alone.
C10_PromptNameIsExecutorName ==
    \A t \in Threads :
        req[t].via \in {"method", "forward"} =>
            /\ (pc[t] \in {"written", "loaded", "ran"} => req[t].type \in ExecTypes)
            /\ (pc[t] = "done" /\ req[t].execd => req[t].name # "")
            /\ (req[t].name # "" =>
                    /\ req[t].name = FnNamed(req[t].prompt)
                    /\ req[t].name = PromptFnName(req[t].m))
            /\ (pc[t] = "ran" =>
                    /\ Len(req[t].args) = 1
                    /\ ApplyEffect(req[t].args[1], req[t].fn[1].code[1].eff)
                           = df[t][1].pd_df)

\* a cleaning request of forward whose generated function has been called
C10_Witness ==
    \E t \in Threads :
        /\ pc[t] = "ran"
        /\ req[t].via = "forward"
        /\ req[t].m = "cleaning"
        /\ req[t].name = "pandas_clean_function"

\* what the claim names as the inputs of a prompt: the shape of the dataset,
\* its column names and its first two rows (the instruction is the fourth)
PromptInputs(frame) ==
    <<Len(frame.rows), Len(frame.cols), frame.cols, Head2(frame)>>

\* C11: a prompt depends only on the dataset's shape, its column names, its
\* two-row sample and the instruction: the prompt a wrapper builds is the one
\* a newly made wrapper builds over any dataset equal in these, whatever ran
\* on the wrapper before.
C11_PromptDependsOnInputsOnly ==
    \A t \in Threads :
        pc[t] = "remote" =>
            \A f \in Frames :
                PromptInputs(f) = PromptInputs(df[t][1].pd_df) =>
                    CreatePrompt(NewAIDataFrame(f, "another description", "user"),
                                 req[t].m, req[t].q)
                        = req[t].prompt

\* the call entered the body of a request method
MethodEntered(r) ==
    \/ r.via = "method"
    \/ r.via = "forward" /\ r.tag \in {"cleaning", "query", "manipulation"}

\* C12: an invocation of a request method calls the remote completion client
\* exactly once, whatever the outcome of the invocation.
C12_OneRemoteCallPerInvocation ==
    \A t \in Threads :
        MethodEntered(req[t]) =>
            /\ req[t].rcalls = 1
            /\ req[t].built = <<req[t].m>>

\* a request method whose generated code raised, ended after its one remote call
C12_Witness ==
    \E t \in Threads :
        /\ pc[t] = "done"
        /\ req[t].via = "method"
        /\ req[t].exout.exc = "RuntimeError"
        /\ req[t].rcalls = 1

\* C13: when loading or running the generated code raises, execute_python
\* and the callers above it raise that exception and return no result; no
\* error-correction prompt is built and no second remote call is made.
C13_GeneratedCodeErrorPropagates ==
    \A t \in Threads :
        (pc[t] = "done" /\ GeneratedCodeFailed(req[t])) =>
            /\ req[t].exout.kind = "raise"
            /\ req[t].out = req[t].exout
            /\ \A i \in 1..Len(req[t].built) : req[t].built[i] # "error_correction"
            /\ req[t].rcalls = (IF req[t].via = "exec" THEN 0 ELSE 1)

\* a request of forward whose generated source did not load
C13_Witness ==
    \E t \in Threads :
        /\ pc[t] = "done"
        /\ req[t].via = "forward"
        /\ req[t].exout.exc = "SyntaxError"
        /\ req[t].out.exc = "SyntaxError"

\* C14: when the remote call fails, the request raises that error and does
\* nothing else: tmp.py is not written, no generated code is loaded or
\* executed, and the wrapped dataset is unchanged.
C14_RemoteFailureHasNoEffect ==
    [][\A t \in Threads :
          (pc[t] = "remote" /\ pc'[t] = "done") =>
              /\ req'[t].out = Raise("APIError")
              /\ ~req'[t].execd
              /\ req'[t].code = <<>>
              /\ req'[t].fn = <<>>
              /\ req'[t].args = <<>>
              /\ req'[t].ev = <<"remote">>
              /\ UNCHANGED <<df, tmp_py, sys_modules, cleaned_csv>>]_vars

\* a request of forward ended by the failure of its remote call
C14_Witness ==
    \E t \in Threads :
        /\ pc[t] = "done"
        /\ req[t].via = "forward"
        /\ RemoteFailed(req[t])
        /\ req[t].out = Raise("APIError")

DropThenCreate ==
    /\ Len(stmts) = 2
    /\ stmts[1].op = "drop"
    /\ stmts[1].if_exists
    /\ stmts[2].op = "create"
    /\ stmts[2].if_not_exists
    /\ ~stmts[2].or_replace
    /\ stmts[2].name = stmts[1].name

\* C16: from any catalog state, DROP FUNCTION IF EXISTS f followed by
\* CREATE FUNCTION IF NOT EXISTS f IMPL path raises no error on account of f
\* having been present or absent, and leaves exactly one row named f,
\* registered from the given path.
C16_DropThenCreateRegisters ==
    DropThenCreate =>
        /\ stmts[1].out.kind = "return"
        /\ stmts[2].out.val # StrV(AlreadyExistsMsg(stmts[2].name))
        /\ stmts[2].out.val # StrV(NothingAddedMsg(stmts[2].name))
        /\ AbsolutePath(stmts[2].impl_path) \in LoadableImpls =>
              /\ stmts[2].out.kind = "return"
              /\ RowsNamed(function_catalog, stmts[2].name) =
                    {FunctionRow(stmts[2].name,
                                 <<"/", "app">> \o Tail(stmts[2].impl_path), "None")}

\* the pair of statements run on a catalog that held f from another path
C16_Witness ==
    /\ DropThenCreate
    /\ stmts[1].before # <<>>
    /\ stmts[1].before[1].impl_path # AbsolutePath(stmts[2].impl_path)
    /\ stmts[1].out.val = StrV(DroppedMsg(stmts[1].name))
    /\ stmts[2].out.val = StrV(AddedMsg(stmts[2].name))

\* a request (a request method, called directly or by forward) that returned
SuccessfulRequest(t) ==
    /\ pc[t] = "done"
    /\ req[t].via \in {"method", "forward"}
    /\ req[t].out.kind = "return"

\* C17: a successful request makes exactly one remote call, one write of
\* tmp.py, one load, one call of the function and one delete, in that order;
\* tmp.py exists throughout the load and the call and is gone when the
\* result is returned.
C17_StepsInOrder ==
    \A t \in Threads :
        /\ SuccessfulRequest(t) =>
              /\ SelectSeq(req[t].ev, LAMBDA e : e # "save_csv")
                    = <<"remote", "write", "load", "call", "delete">>
              /\ tmp_py = <<>>
        /\ (req[t].via \in {"method", "forward"} /\ pc[t] \in {"written", "loaded", "ran"}) =>
              tmp_py # <<>>

\* a manipulation request that returned
C17_Witness ==
    \E t \in Threads :
        /\ SuccessfulRequest(t)
        /\ req[t].via = "method"
        /\ req[t].m = "manipulation"

\* the input batch without its first two columns
DataColumns(batch) ==
    [cols |-> SubSeq(batch.cols, 3, Len(batch.cols)),
     rows |-> [i \in 1..Len(batch.rows) |->
                 SubSeq(batch.rows[i], 3, Len(batch.rows[i]))]]

C19_UnknownTagSelectsNoBranch ==
    \A t \in Threads :
        (req[t].via = "forward" /\ req[t].tag # "" /\ req[t].tag \notin SupportedTags) =>
            /\ pc[t] = "done"
            /\ req[t].out = Raise("UnboundLocalError")
            /\ req[t].rcalls = 0
            /\ req[t].built = <<>>
            /\ req[t].ev = <<>>
            /\ ~req[t].execd
            /\ req[t].code = <<>>
            /\ req[t].saved = <<>>

\* forward called with the tag summary
C19_Witness ==
    \E t \in Threads :
        /\ pc[t] = "done"
        /\ req[t].via = "forward"
        /\ req[t].tag = "summary"
        /\ req[t].out.exc = "UnboundLocalError"

CleanResponse == StrV(<<"cleaned dataframe is saved to cleaned_df.csv">>)

\* C20: for a cleaning request, clean_dataframe returns the value the
\* generated function returned, forward writes that value to cleaned_df.csv
\* and then answers with the fixed text, which the later branch test leaves
\* alone; whenever that answer is returned the file has been written.
C20_CleaningSavesThenAnswers ==
    \A t \in Threads :
        (pc[t] = "done" /\ req[t].via = "forward" /\ req[t].tag = "cleaning") =>
            /\ req[t].exout.kind = "return" => req[t].mout = Return(req[t].ret)
            /\ req[t].out.kind = "return" =>
                  /\ req[t].out = ResponseTable(CleanResponse)
                  /\ req[t].saved = <<req[t].ret>>
                  /\ req[t].ev[Len(req[t].ev)] = "save_csv"
                  /\ cleaned_csv
            /\ req[t].out.val = CleanResponse => cleaned_csv

\* a cleaning request of forward that answered
C20_Witness ==
    \E t \in Threads :
        /\ pc[t] = "done"
        /\ req[t].via = "forward"
        /\ req[t].tag = "cleaning"
        /\ req[t].out.val = CleanResponse
        /\ req[t].saved = <<DfV>>

\* C21: get_prompt renders each of its inputs in its own labelled slot: the
\* dataset after 'pandas dataframe', the instruction after 'question was
\* asked', the failing source after 'python code was generated', the error
\* text after 'gave the following error'; the call changes nothing else and
\* makes no remote call.
C21_CorrectionPromptSlots ==
    correction # <<>> =>
        LET c == correction[1] IN
        /\ Contains(c.text, <<"Given the following pandas dataframe", SP>>
                            \o DfRepr(c.df) \o <<",">>)
        /\ Contains(c.text, <<"and the following question was asked", SP>>
                            \o c.question \o <<".">>)
        /\ Contains(c.text, <<"The following python code was generated", SP, ":", SP>>
                            \o c.source \o <<".">>)
        /\ Contains(c.text, <<"This code gave the following error:", SP>>
                            \o c.error \o <<".">>)
        /\ tmp_py = <<>> /\ sys_modules = <<>> /\ ~cleaned_csv /\ reqs = 0
        /\ \A t \in Threads : pc[t] = "idle" /\ req[t].rcalls = 0 /\ df[t] = <<>>

\* the prompt rendered for a dataset with rows and a source that did not parse
C21_Witness ==
    /\ correction # <<>>
    /\ Len(correction[1].df.rows) = 2
    /\ correction[1].error = <<"SyntaxError: unexpected EOF while parsing">>
    /\ Contains(correction[1].text, correction[1].source)

\* the column count a prompt states: the text between 'The dataframe has'
\* and 'columns'
StatedCount(prompt) == prompt[IndexOf(prompt, "The dataframe has") + 2]

\* the number of names in the list a prompt states after 'The columns are'
StatedListLen(prompt) ==
    LET a == IndexOf(prompt, "[")
        b == IndexOf(prompt, "]")
    IN Cardinality({ i \in a..b : prompt[i] = "'" }) \div 2

\* C22: in every prompt built by the four create_*_prompt methods, in any
\* reachable state of the wrapper, the column count stated is a number, equal
\* to the length of the list of column names stated in the same prompt.
C22_StatedCountIsListLength ==
    \A t \in Threads :
        req[t].prompt # <<>> =>
            StatedCount(req[t].prompt) = ToString(StatedListLen(req[t].prompt))

\* the function the call of thread t loaded was called and returned
FunctionCompleted(t) ==
    /\ pc[t] \in {"ran", "done"}
    /\ \E i \in 1..Len(req[t].ev) : req[t].ev[i] = "call"
    /\ req[t].exout.exc # "RuntimeError"

\* C23: when two execute_python calls run concurrently in one process and
\* both generated functions run to completion, both calls return their
\* function's result; neither fails because the other has already deleted
\* the shared tmp.py.
C23_ConcurrentCallsBothReturn ==
    (\A u \in Threads : FunctionCompleted(u)) =>
        \A t \in Threads :
            pc[t] = "done" =>
                req[t].out = Return(ExecReturn(req[t].type, req[t].ret))

\* the call of thread t is a direct call of execute_python with a type string
\* that none of its five branches tests for
UntestedType(t) ==
    /\ req[t].via = "exec"
    /\ req[t].type \notin
          {"query", "plot", "manipulation", "data_cleaning", "image_analysis"}

\* C24: execute_python called with a type string outside query, plot,
\* manipulation, data_cleaning and image_analysis writes no file, loads and
\* runs no code, leaves the dataset and the files unchanged and returns None
\* without raising.
C24_UntestedTypeReturnsNone ==
    [][\A t \in Threads :
          (pc[t] = "exec" /\ pc'[t] # "exec" /\ UntestedType(t)) =>
              /\ pc'[t] = "done"
              /\ req'[t].out = Return(NoneV)
              /\ req'[t].ev = <<>>
              /\ req'[t].name = ""
              /\ req'[t].fn = <<>>
              /\ req'[t].args = <<>>
              /\ UNCHANGED <<df, tmp_py, sys_modules, cleaned_csv>>]_vars

\* execute_python has returned from a call with the type string 'cleaning'
C24_Witness ==
    \E t \in Threads :
        /\ pc[t] = "done"
        /\ req[t].via = "exec"
        /\ req[t].type = "cleaning"
        /\ req[t].out = Return(NoneV)

\* the statement a step of the catalog session has just executed
LastStmt == stmts'[Len(stmts')]

\* C25: after any sequence of CREATE FUNCTION and DROP FUNCTION statements,
\* failing ones included, no two rows of the catalog share a name; a plain
\* CREATE on an existing name raises and leaves the catalog unchanged; CREATE
\* IF NOT EXISTS on an existing name adds nothing; CREATE OR REPLACE leaves
\* exactly one row of that name, the new one.
C25_CatalogNamesUnique ==
    [][stmts' # stmts =>
        /\ \A name \in FunctionNames : Cardinality(RowsNamed(function_catalog', name)) <= 1
        /\ (LastStmt.op = "create" /\ LastStmt.before # <<>> /\
            ~LastStmt.if_not_exists /\ ~LastStmt.or_replace) =>
               /\ LastStmt.out.kind = "raise"
               /\ function_catalog' = function_catalog
        /\ (LastStmt.op = "create" /\ LastStmt.before # <<>> /\
            LastStmt.if_not_exists /\ ~LastStmt.or_replace) =>
               function_catalog' = function_catalog
        /\ (LastStmt.op = "create" /\ LastStmt.or_replace /\ ~LastStmt.if_not_exists) =>
               RowsNamed(function_catalog', LastStmt.name) =
                   {FunctionRow(LastStmt.name, AbsolutePath(LastStmt.impl_path), "None")}
    ]_vars

\* C26: DROP FUNCTION of a name the catalog does not hold answers with a
\* message when IF EXISTS is given and raises RuntimeError when it is not,
\* and leaves the catalog unchanged either way; of a name the catalog holds,
\* it drops every dependent function cache before it deletes the function
\* row, and whenever it answers "successfully dropped" a lookup of the name
\* finds no row afterwards.
C26_DropFunctionOutcome ==
    [][(stmts' # stmts /\ LastStmt.op = "drop") =>
        LET name == LastStmt.name
            deps == dep_caches(Catalog, name)
        IN
        /\ LastStmt.before = <<>> =>
              /\ LastStmt.out = (IF LastStmt.if_exists
                                 THEN StmtBatch(NotExistMsg(name))
                                 ELSE StmtRaise("RuntimeError", NotExistMsg(name)))
              /\ UNCHANGED <<function_catalog, function_io, function_cache>>
        /\ LastStmt.before # <<>> =>
              /\ LastStmt.steps =
                    [i \in 1..Len(deps) |-> Step("drop_cache", deps[i].name)] \o
                    <<Step("delete_function", name)>>
              /\ RowsOf(function_cache', name) = {}
        /\ LastStmt.out.val = StrV(DroppedMsg(name)) =>
              get_entry_by_name(function_catalog', name) = <<>>
    ]_vars

\* the statement the catalog session executed last
DoneStmt == stmts[Len(stmts)]

\* the last statement reached insert_entry: its class loads and no row of
\* the name is in its way
ReachedInsert(s) ==
    /\ s.op = "create"
    /\ AbsolutePath(s.impl_path) \in LoadableImpls
    /\ ~(s.if_not_exists /\ s.or_replace)
    /\ s.before = <<>> \/ (s.or_replace /\ s.fault # "delete")

\* C27: insert_entry is atomic over the function row and its io and
\* metadata rows: when it returns, the function row and all its io and
\* metadata rows are stored; when adding the io or metadata rows fails, it
\* raises CatalogError and the catalog holds neither the function row nor
\* any io or metadata row of the function.
C27_InsertEntryAtomic ==
    [][(stmts' # stmts /\ LastStmt.op = "create") =>
        LET name == LastStmt.name
            impl_path == AbsolutePath(LastStmt.impl_path)
        IN
        /\ LastStmt.out.val \in {StrV(AddedMsg(name)), StrV(OverwrittenMsg(name))} =>
              /\ RowsNamed(function_catalog', name) = {FunctionRow(name, impl_path, "None")}
              /\ RowsOf(function_io', name) =
                    NewRows(name, IoList(impl_path), LastStmt.metadata)
        /\ (ReachedInsert(LastStmt) /\ LastStmt.fault = "add_rows") =>
              /\ LastStmt.out.kind = "raise"
              /\ LastStmt.out.exc = "CatalogError"
              /\ RowsNamed(function_catalog', name) = {}
              /\ RowsOf(function_io', name) = {}
    ]_vars

\* an OR REPLACE with a metadata pair, on a catalog that held the function,
\* has failed while adding the io and metadata rows
C27_Witness ==
    /\ stmts # <<>>
    /\ ReachedInsert(DoneStmt)
    /\ DoneStmt.fault = "add_rows"
    /\ DoneStmt.or_replace
    /\ DoneStmt.before # <<>>
    /\ DoneStmt.metadata # <<>>
    /\ DoneStmt.out.exc = "CatalogError"

\* the rows of the first k batches of a child's output
RowsOfFirst(child, k) == Concat(SubSeq(child, 1, k))

\* the smaller of two numbers
Smaller(a, b) == IF a < b THEN a ELSE b

\* C28: for every limit L >= 0 and child batches of N rows in total,
\* LimitExecutor.exec yields exactly min(L, N) rows, the first ones in
\* order, and after a yield that brings the rows yielded to L it pulls
\* nothing more from its child.
C28_LimitYieldsFirstRows ==
    limit_exec.started =>
        /\ limit_exec.done =>
              Concat(limit_exec.yielded) =
                  SubSeq(Concat(limit_exec.child), 1,
                         Smaller(limit_exec.limit_count, Len(Concat(limit_exec.child))))
        /\ limit_exec.consumed > 1 =>
              Len(RowsOfFirst(limit_exec.child, limit_exec.consumed - 1)) <
                  limit_exec.limit_count

\* C29: with frequency f >= 1, what SampleExecutor.exec has yielded,
\* concatenated, is exactly the rows of what it has pulled from its child
\* whose position in the concatenated child output is a multiple of f,
\* whatever the batch boundaries.
C29_SampleEveryFthRow ==
    sample_exec.started =>
        Concat(sample_exec.yielded) =
            SelectSeq(RowsOfFirst(sample_exec.child, sample_exec.consumed),
                      LAMBDA row : row % sample_exec.sample_freq = 0)

\* a sample of every second or third row has run to the end of a child whose
\* first batch ends off a multiple of the frequency, and took rows of a
\* later batch
C29_Witness ==
    /\ sample_exec.done
    /\ sample_exec.sample_freq > 1
    /\ Len(sample_exec.child) > 1
    /\ Len(sample_exec.child[1]) % sample_exec.sample_freq # 0
    /\ \E i \in 2..Len(sample_exec.yielded) : sample_exec.yielded[i] # <<>>

\* C30: under any interleaving of concurrent SQLConfig(uri) calls with one
\* uri, the constructor runs at most once while an instance is alive (no two
\* objects are alive together), the calls return the same instance, and no
\* call fails at the final lookup in the weak-value registry.
C30_SingletonPerUri ==
    /\ Cardinality(Referenced(caller)) <= 1
    /\ \A t \in Threads, u \in Threads :
          (caller[t].ref # <<>> /\ caller[u].ref # <<>>) => caller[t].ref = caller[u].ref
    /\ \A t \in Threads : caller[t].exc # "KeyError"

====
